---- MODULE Spec2Model ----
(***************************************************************************)
(* Job-distribution protocol of Assignment2/assignment2.py: the server     *)
(* (runserver) submits one job per chunk on the shared job queue, polls    *)
(* the shared result queue until it has one result per chunk, enqueues the *)
(* poison pill, sleeps and shuts the manager down; the client              *)
(* (run_workers) spawns num_processes workers (peon) that poll the job     *)
(* queue, execute jobs, push results and recycle the poison pill.          *)
(*                                                                         *)
(* Every proxy call on a shared queue (get_nowait, put) is one atomic      *)
(* step; the processes interleave freely between their proxy calls.  The   *)
(* time.sleep calls are delays of unconstrained length: nothing in the     *)
(* code synchronises a sleeping process with the others.                   *)
(***************************************************************************)
EXTENDS Integers, Sequences, FiniteSets, TLC

\* ------------------------------------------------------------------ bounds
MaxChunks == 3
MaxWorkers == 2

\* --------------------------------------------------------------- constants
POISONPILL == [fn |-> "MEMENTOMORI", args |-> [id |-> 0, kind |-> "none"]]
ERROR == "DOH"

\* What calling job['fn'](job['args']) does for a chunk: return a value,
\* raise NameError, or raise some other exception.
Kinds == {"ok", "nameerror", "other"}

Workers == 1..MaxWorkers

NoJob == [fn |-> "none", args |-> [id |-> 0, kind |-> "none"]]

VARIABLES
    chunks,         \* runserver: the chunks argument
    next_chunk,     \* runserver: position of "for chunk in chunks"
    results,        \* runserver: the results list
    spc,            \* runserver: program position
    manager,        \* the server manager: "running" or "shutdown"
    job_q,          \* make_server_manager: job_q
    result_q,       \* make_server_manager: result_q
    num_processes,  \* run_workers: the num_processes argument
    processes,      \* run_workers: the processes list
    joined,         \* run_workers: number of processes joined so far
    ppc,            \* run_workers: program position
    wpc,            \* peon: program position of each worker
    job             \* peon: the job variable of each worker

vars == <<chunks, next_chunk, results, spc, manager, job_q, result_q,
          num_processes, processes, joined, ppc, wpc, job>>

servervars == <<chunks, next_chunk, results, spc>>
poolvars == <<num_processes, processes, joined, ppc>>

\* ----------------------------------------------------------------- helpers
RECURSIVE SeqsUpTo(_, _)
SeqsUpTo(S, n) ==
    IF n = 0 THEN {<<>>}
    ELSE LET shorter == SeqsUpTo(S, n - 1)
         IN  shorter \cup {Append(s, x) : s \in {t \in shorter : Len(t) = n - 1}, x \in S}

\* The chunk descriptors split_file() hands to runserver: pairwise distinct
\* (the position in the file), each with the behaviour of read_file on it.
ChunkLists ==
    {[k \in 1..Len(ks) |-> [id |-> k, kind |-> ks[k]]] : ks \in SeqsUpTo(Kinds, MaxChunks)}

MakeJob(chunk) == [fn |-> "read_file", args |-> chunk]

\* The value job['fn'](job['args']) returns when it returns.
PHRED == "PHRED"

Count(q, x) == Cardinality({k \in 1..Len(q) : q[k] = x})

\* -------------------------------------------------------------- initial state
Init ==
    /\ chunks \in ChunkLists
    /\ next_chunk = 1
    /\ results = <<>>
    /\ spc = "check"
    /\ manager = "running"
    /\ job_q = <<>>
    /\ result_q = <<>>
    /\ num_processes \in 0..MaxWorkers
    /\ processes = <<>>
    /\ joined = 0
    /\ ppc = "spawn"
    /\ wpc = [w \in Workers |-> "init"]
    /\ job = [w \in Workers |-> NoJob]

\* ------------------------------------------------------------------ runserver
\* Variant of CheckChunks: no early return for an empty chunk list.
CheckChunks_NoEarlyReturn ==
    /\ spc = "check"
    /\ spc' = "submit"
    /\ UNCHANGED <<chunks, next_chunk, results, manager, job_q, result_q,
                   poolvars, wpc, job>>

\* if not chunks: return
CheckChunks ==
    /\ spc = "check"
    /\ spc' = IF Len(chunks) = 0 THEN "done" ELSE "submit"
    /\ UNCHANGED <<chunks, next_chunk, results, manager, job_q, result_q,
                   poolvars, wpc, job>>

\* Variant of Submit: the job goes to the front of the queue.
Submit_Prepend ==
    /\ spc = "submit"
    /\ next_chunk <= Len(chunks)
    /\ job_q' = <<MakeJob(chunks[next_chunk])>> \o job_q
    /\ next_chunk' = next_chunk + 1
    /\ UNCHANGED <<chunks, results, spc, manager, result_q, poolvars, wpc, job>>

\* Variant of Submit: every job is put twice.
Submit_Twice ==
    /\ spc = "submit"
    /\ next_chunk <= Len(chunks)
    /\ job_q' = job_q \o <<MakeJob(chunks[next_chunk]), MakeJob(chunks[next_chunk])>>
    /\ next_chunk' = next_chunk + 1
    /\ UNCHANGED <<chunks, results, spc, manager, result_q, poolvars, wpc, job>>

\* for chunk in chunks: shared_job_q.put({'fn': obj.read_file, 'args': (chunk)})
Submit ==
    /\ spc = "submit"
    /\ next_chunk <= Len(chunks)
    /\ job_q' = Append(job_q, MakeJob(chunks[next_chunk]))
    /\ next_chunk' = next_chunk + 1
    /\ UNCHANGED <<chunks, results, spc, manager, result_q, poolvars, wpc, job>>

\* end of the for loop; print, time.sleep(2), results = []
StartCollect ==
    /\ spc = "submit"
    /\ next_chunk > Len(chunks)
    /\ results' = <<>>
    /\ spc' = "collect"
    /\ UNCHANGED <<chunks, next_chunk, manager, job_q, result_q, poolvars, wpc, job>>

\* Variant of CollectGet: the loop is left at the first result.
CollectGet_BreakFirst ==
    /\ spc = "collect"
    /\ result_q # <<>>
    /\ results' = Append(results, Head(result_q))
    /\ result_q' = Tail(result_q)
    /\ spc' = "pill"
    /\ UNCHANGED <<chunks, next_chunk, manager, job_q, poolvars, wpc, job>>

\* Variant of CollectGet: the loop is left one result early.
CollectGet_OffByOne ==
    /\ spc = "collect"
    /\ result_q # <<>>
    /\ results' = Append(results, Head(result_q))
    /\ result_q' = Tail(result_q)
    /\ spc' = IF Len(results') = Len(chunks) - 1 THEN "pill" ELSE "collect"
    /\ UNCHANGED <<chunks, next_chunk, manager, job_q, poolvars, wpc, job>>

\* result = shared_result_q.get_nowait(); results.append(result);
\* if len(results) == len(chunks): break
CollectGet ==
    /\ spc = "collect"
    /\ result_q # <<>>
    /\ results' = Append(results, Head(result_q))
    /\ result_q' = Tail(result_q)
    /\ spc' = IF Len(results') = Len(chunks) THEN "pill" ELSE "collect"
    /\ UNCHANGED <<chunks, next_chunk, manager, job_q, poolvars, wpc, job>>

\* Variant of CollectEmpty: an empty result queue ends the collection.
CollectEmpty_Break ==
    /\ spc = "collect"
    /\ result_q = <<>>
    /\ spc' = "pill"
    /\ UNCHANGED <<chunks, next_chunk, results, manager, job_q, result_q,
                   poolvars, wpc, job>>

\* Variant of CollectEmpty: the results list is started afresh.
CollectEmpty_Reset ==
    /\ spc = "collect"
    /\ result_q = <<>>
    /\ results' = <<>>
    /\ spc' = "collect_sleep"
    /\ UNCHANGED <<chunks, next_chunk, manager, job_q, result_q, poolvars, wpc, job>>

\* except queue.Empty: time.sleep(1)
CollectEmpty ==
    /\ spc = "collect"
    /\ result_q = <<>>
    /\ spc' = "collect_sleep"
    /\ UNCHANGED <<chunks, next_chunk, results, manager, job_q, result_q,
                   poolvars, wpc, job>>

\* the sleep is over: continue
CollectWake ==
    /\ spc = "collect_sleep"
    /\ spc' = "collect"
    /\ UNCHANGED <<chunks, next_chunk, results, manager, job_q, result_q,
                   poolvars, wpc, job>>

\* Variant of PutPill: one pill per chunk.
PutPill_PerChunk ==
    /\ spc = "pill"
    /\ job_q' = job_q \o [k \in 1..Len(chunks) |-> POISONPILL]
    /\ spc' = "grace"
    /\ UNCHANGED <<chunks, next_chunk, results, manager, result_q, poolvars, wpc, job>>

\* shared_job_q.put(POISONPILL)
PutPill ==
    /\ spc = "pill"
    /\ job_q' = Append(job_q, POISONPILL)
    /\ spc' = "grace"
    /\ UNCHANGED <<chunks, next_chunk, results, manager, result_q, poolvars, wpc, job>>

\* Variant of Shutdown: manager.shutdown() is left out.
Shutdown_Skip ==
    /\ spc = "grace"
    /\ manager' = manager
    /\ spc' = "finalize"
    /\ UNCHANGED <<chunks, next_chunk, results, job_q, result_q, poolvars, wpc, job>>

\* time.sleep(5); manager.shutdown()
Shutdown ==
    /\ spc = "grace"
    /\ manager' = "shutdown"
    /\ spc' = "finalize"
    /\ UNCHANGED <<chunks, next_chunk, results, job_q, result_q, poolvars, wpc, job>>

\* csv_writer(obj.calc_avg(results, True), outfile)
Finalize ==
    /\ spc = "finalize"
    /\ spc' = "done"
    /\ UNCHANGED <<chunks, next_chunk, results, manager, job_q, result_q,
                   poolvars, wpc, job>>

Server ==
    \/ CheckChunks
    \/ Submit
    \/ StartCollect
    \/ CollectGet
    \/ CollectEmpty
    \/ CollectWake
    \/ PutPill
    \/ Shutdown
    \/ Finalize

\* ---------------------------------------------------------------- run_workers
\* temp_proc = mp.Process(target=peon, ...); processes.append(temp_proc);
\* temp_proc.start()
Spawn ==
    /\ ppc = "spawn"
    /\ Len(processes) < num_processes
    /\ LET w == Len(processes) + 1
       IN  /\ processes' = Append(processes, w)
           /\ wpc' = [wpc EXCEPT ![w] = "fetch"]
    /\ UNCHANGED <<servervars, manager, job_q, result_q, num_processes, joined,
                   ppc, job>>

\* end of the spawning loop; print("Started %s workers!")
StartJoin ==
    /\ ppc = "spawn"
    /\ Len(processes) = num_processes
    /\ ppc' = "join"
    /\ UNCHANGED <<servervars, manager, job_q, result_q, num_processes,
                   processes, joined, wpc, job>>

\* Variant of Join: the process is not waited for.
Join_NoWait ==
    /\ ppc = "join"
    /\ joined < Len(processes)
    /\ joined' = joined + 1
    /\ UNCHANGED <<servervars, manager, job_q, result_q, num_processes,
                   processes, ppc, wpc, job>>

\* temp_proc.join(): returns once that process has exited, however it exited
Join ==
    /\ ppc = "join"
    /\ joined < Len(processes)
    /\ wpc[processes[joined + 1]] \in {"terminated", "crashed", "disconnected"}
    /\ joined' = joined + 1
    /\ UNCHANGED <<servervars, manager, job_q, result_q, num_processes,
                   processes, ppc, wpc, job>>

\* end of the joining loop: run_workers returns
PoolDone ==
    /\ ppc = "join"
    /\ joined = Len(processes)
    /\ ppc' = "done"
    /\ UNCHANGED <<servervars, manager, job_q, result_q, num_processes,
                   processes, joined, wpc, job>>

Pool ==
    \/ Spawn
    \/ StartJoin
    \/ Join
    \/ PoolDone

\* ----------------------------------------------------------------------- peon
\* Variant of FetchEmpty: an empty job queue makes the worker return.
FetchEmpty_Return(w) ==
    /\ wpc[w] = "fetch"
    /\ manager = "running"
    /\ job_q = <<>>
    /\ wpc' = [wpc EXCEPT ![w] = "terminated"]
    /\ UNCHANGED <<servervars, manager, job_q, result_q, poolvars, job>>

\* job_q.get_nowait() raises queue.Empty; print, time.sleep(1)
FetchEmpty(w) ==
    /\ wpc[w] = "fetch"
    /\ manager = "running"
    /\ job_q = <<>>
    /\ wpc' = [wpc EXCEPT ![w] = "sleep"]
    /\ UNCHANGED <<servervars, manager, job_q, result_q, poolvars, job>>

\* the sleep is over: next iteration of while True
Wake(w) ==
    /\ wpc[w] = "sleep"
    /\ wpc' = [wpc EXCEPT ![w] = "fetch"]
    /\ UNCHANGED <<servervars, manager, job_q, result_q, poolvars, job>>

\* Variant of FetchPill: the pill is read but left in the queue.
FetchPill_Peek(w) ==
    /\ wpc[w] = "fetch"
    /\ manager = "running"
    /\ job_q # <<>>
    /\ Head(job_q) = POISONPILL
    /\ job' = [job EXCEPT ![w] = Head(job_q)]
    /\ job_q' = job_q
    /\ wpc' = [wpc EXCEPT ![w] = "retire"]
    /\ UNCHANGED <<servervars, manager, result_q, poolvars>>

\* job = job_q.get_nowait(); if job == POISONPILL
FetchPill(w) ==
    /\ wpc[w] = "fetch"
    /\ manager = "running"
    /\ job_q # <<>>
    /\ Head(job_q) = POISONPILL
    /\ job' = [job EXCEPT ![w] = Head(job_q)]
    /\ job_q' = Tail(job_q)
    /\ wpc' = [wpc EXCEPT ![w] = "retire"]
    /\ UNCHANGED <<servervars, manager, result_q, poolvars>>

\* Variant of FetchJob: the job is read but left at the head of the queue.
FetchJob_Peek(w) ==
    /\ wpc[w] = "fetch"
    /\ manager = "running"
    /\ job_q # <<>>
    /\ Head(job_q) # POISONPILL
    /\ job' = [job EXCEPT ![w] = Head(job_q)]
    /\ job_q' = job_q
    /\ wpc' = [wpc EXCEPT ![w] = "exec"]
    /\ UNCHANGED <<servervars, manager, result_q, poolvars>>

\* Variant of FetchJob: the pill is not told apart from a job.
FetchJob_NoPillTest(w) ==
    /\ wpc[w] = "fetch"
    /\ manager = "running"
    /\ job_q # <<>>
    /\ job' = [job EXCEPT ![w] = Head(job_q)]
    /\ job_q' = Tail(job_q)
    /\ wpc' = [wpc EXCEPT ![w] = "exec"]
    /\ UNCHANGED <<servervars, manager, result_q, poolvars>>

\* job = job_q.get_nowait(); else branch of if job == POISONPILL
FetchJob(w) ==
    /\ wpc[w] = "fetch"
    /\ manager = "running"
    /\ job_q # <<>>
    /\ Head(job_q) # POISONPILL
    /\ job' = [job EXCEPT ![w] = Head(job_q)]
    /\ job_q' = Tail(job_q)
    /\ wpc' = [wpc EXCEPT ![w] = "exec"]
    /\ UNCHANGED <<servervars, manager, result_q, poolvars>>

\* job_q.get_nowait() on a manager that was shut down raises a connection
\* error, which "except queue.Empty" does not catch: the process dies
FetchFail(w) ==
    /\ wpc[w] = "fetch"
    /\ manager = "shutdown"
    /\ wpc' = [wpc EXCEPT ![w] = "disconnected"]
    /\ UNCHANGED <<servervars, manager, job_q, result_q, poolvars, job>>

\* Variant of Retire: the pill is not put back.
Retire_NoPut(w) ==
    /\ wpc[w] = "retire"
    /\ job_q' = job_q
    /\ wpc' = [wpc EXCEPT ![w] = IF manager = "running" THEN "terminated" ELSE "disconnected"]
    /\ UNCHANGED <<servervars, manager, result_q, poolvars, job>>

\* job_q.put(POISONPILL); print; return
Retire(w) ==
    /\ wpc[w] = "retire"
    /\ IF manager = "running"
       THEN /\ job_q' = Append(job_q, POISONPILL)
            /\ wpc' = [wpc EXCEPT ![w] = "terminated"]
       ELSE /\ job_q' = job_q
            /\ wpc' = [wpc EXCEPT ![w] = "disconnected"]
    /\ UNCHANGED <<servervars, manager, result_q, poolvars, job>>

\* Variant of Execute: the NameError handler puts no result.
Execute_ErrorNoPut(w) ==
    /\ wpc[w] = "exec"
    /\ LET kind == job[w].args.kind
       IN  IF kind \notin {"ok", "nameerror"}
           THEN /\ result_q' = result_q
                /\ wpc' = [wpc EXCEPT ![w] = "crashed"]
           ELSE IF manager = "running"
           THEN /\ result_q' = IF kind = "ok"
                                THEN Append(result_q, [job |-> job[w], result |-> PHRED])
                                ELSE result_q
                /\ wpc' = [wpc EXCEPT ![w] = "fetch"]
           ELSE /\ result_q' = result_q
                /\ wpc' = [wpc EXCEPT ![w] = "disconnected"]
    /\ UNCHANGED <<servervars, manager, job_q, poolvars, job>>

\* Variant of Execute: NameError is not caught.
Execute_NoExcept(w) ==
    /\ wpc[w] = "exec"
    /\ IF job[w].args.kind # "ok"
       THEN /\ result_q' = result_q
            /\ wpc' = [wpc EXCEPT ![w] = "crashed"]
       ELSE IF manager = "running"
       THEN /\ result_q' = Append(result_q, [job |-> job[w], result |-> PHRED])
            /\ wpc' = [wpc EXCEPT ![w] = "fetch"]
       ELSE /\ result_q' = result_q
            /\ wpc' = [wpc EXCEPT ![w] = "disconnected"]
    /\ UNCHANGED <<servervars, manager, job_q, poolvars, job>>

\* Variant of Execute: every exception is caught and reported as ERROR.
Execute_CatchAll(w) ==
    /\ wpc[w] = "exec"
    /\ IF manager = "running"
       THEN /\ result_q' = Append(result_q,
                    [job |-> job[w],
                     result |-> IF job[w].args.kind = "ok" THEN PHRED ELSE ERROR])
            /\ wpc' = [wpc EXCEPT ![w] = "fetch"]
       ELSE /\ result_q' = result_q
            /\ wpc' = [wpc EXCEPT ![w] = "disconnected"]
    /\ UNCHANGED <<servervars, manager, job_q, poolvars, job>>

\* result = job['fn'](job['args']); result_q.put({'job': job, 'result': result})
\* except NameError: result_q.put({'job': job, 'result': ERROR})
\* any other exception kills the process, and so does the connection error
\* of a put on a manager that was shut down
Execute(w) ==
    /\ wpc[w] = "exec"
    /\ LET kind == job[w].args.kind
           outcome == IF kind = "ok" THEN PHRED ELSE ERROR
       IN  IF kind \notin {"ok", "nameerror"}
           THEN /\ result_q' = result_q
                /\ wpc' = [wpc EXCEPT ![w] = "crashed"]
           ELSE IF manager = "running"
           THEN /\ result_q' = Append(result_q, [job |-> job[w], result |-> outcome])
                /\ wpc' = [wpc EXCEPT ![w] = "fetch"]
           ELSE /\ result_q' = result_q
                /\ wpc' = [wpc EXCEPT ![w] = "disconnected"]
    /\ UNCHANGED <<servervars, manager, job_q, poolvars, job>>

Worker(w) ==
    \/ FetchEmpty(w)
    \/ Wake(w)
    \/ FetchPill(w)
    \/ FetchJob(w)
    \/ FetchFail(w)
    \/ Retire(w)
    \/ Execute(w)

\* ------------------------------------------------------------- specification
Next ==
    \/ Server
    \/ Pool
    \/ \E w \in Workers : Worker(w)

Spec == Init /\ [][Next]_vars

\* Every process keeps running while it has a step to take.
FairSpec ==
    /\ Spec
    /\ WF_vars(Server)
    /\ WF_vars(Pool)
    /\ \A w \in Workers : WF_vars(Worker(w))

\* ---------------------------------------------------------------- properties
N == Len(chunks)

\* All chunks make job['fn'] return normally.
NoFailures == \A k \in 1..N : chunks[k].kind = "ok"

PillsInQueue == Count(job_q, POISONPILL)

Retiring == {w \in Workers : wpc[w] = "retire"}

\* Some worker has dequeued the poison pill.
PillObserved == \E w \in Workers : job[w] = POISONPILL

Collecting == spc \in {"collect", "collect_sleep"}

PastCollecting == spc \in {"pill", "grace", "finalize"} \/ (spc = "done" /\ N >= 1)

\* C1: the server is inside its collection loop only with fewer than N
\* results, is past the loop only with exactly N results, never has more than
\* N, and the poison pill is nowhere (in the job queue or held by a worker)
\* unless exactly N results were collected.
C1_CollectsExactlyN ==
    /\ Len(results) <= N
    /\ Collecting => Len(results) < N
    /\ PastCollecting => Len(results) = N
    /\ (PillsInQueue > 0 \/ PillObserved) => Len(results) = N

C1_Witness == spc = "pill" /\ N >= 2 /\ Len(results) = N /\ PillsInQueue = 0

\* C2: with N >= 1 chunks that all succeed and W >= 1 workers, under fair
\* scheduling eventually N results are collected and every worker has
\* terminated normally (after dequeuing and re-enqueuing the pill).
C2_AllRetireEventually ==
    (NoFailures /\ N >= 1 /\ num_processes >= 1)
        => <>(Len(results) = N /\ \A w \in 1..num_processes : wpc[w] = "terminated")

\* C3: the job queue holds at most one poison pill.
C3_AtMostOnePill == PillsInQueue <= 1

C3_Witness ==
    /\ PillsInQueue = 1
    /\ \E w \in Workers : wpc[w] = "terminated"
    /\ \E w \in Workers : wpc[w] = "fetch"
    /\ manager = "running"

\* C4 as stated: once a worker has dequeued the pill, the pill is in the job
\* queue for as long as the manager runs.
C4_PillStaysInQueue ==
    (PillObserved /\ manager = "running") => PillsInQueue >= 1

\* C4 amended: once a worker has dequeued the pill, and for as long as the
\* manager runs, the pill is either in the job queue or held by exactly one
\* worker that is about to put it back; every worker that dequeued it and is
\* no longer about to put it back has terminated normally.
C4_PillInQueueOrHeld ==
    (PillObserved /\ manager = "running")
        => /\ PillsInQueue + Cardinality(Retiring) = 1
           /\ \A w \in Workers : job[w] = POISONPILL => wpc[w] \in {"retire", "terminated"}

C4_Witness ==
    /\ manager = "running"
    /\ PillsInQueue = 1
    /\ Cardinality({w \in Workers : wpc[w] = "terminated" /\ job[w] = POISONPILL}) >= 2

InQueueOrList(q, j) == \E k \in 1..Len(q) : q[k].job = j

\* C5: no worker executes the pill, no result is ever made for the pill, and
\* the only step of a worker that dequeued the pill is to put it back (or fail
\* to) and stop, leaving the result queue alone.
C5_PillIsNotAJob ==
    /\ [](/\ \A w \in Workers : wpc[w] = "exec" => job[w] # POISONPILL
          /\ \A w \in Workers : wpc[w] = "retire" => job[w] = POISONPILL
          /\ ~InQueueOrList(result_q, POISONPILL)
          /\ ~InQueueOrList(results, POISONPILL))
    /\ [][\A w \in Workers :
            (wpc[w] = "retire" /\ wpc'[w] # "retire")
                => /\ wpc'[w] \in {"terminated", "disconnected"}
                   /\ result_q' = result_q
                   /\ job_q' \in {job_q, Append(job_q, POISONPILL)}]_vars

C5_Witness ==
    /\ \E w \in Workers : wpc[w] = "terminated" /\ job[w] = POISONPILL
    /\ N >= 1
    /\ Len(results) = N

\* C6: with an empty chunk list the server never touches a queue, never
\* enters submission, collection or termination, and is done after its one
\* step whatever the workers are doing.
C6_EmptyChunksNoop ==
    N = 0 => /\ spc \in {"check", "done"}
             /\ job_q = <<>>
             /\ result_q = <<>>
             /\ results = <<>>
             /\ next_chunk = 1

C6_Witness ==
    /\ N = 0
    /\ spc = "done"
    /\ \E w \in Workers : wpc[w] = "sleep"

Executing(w, kind) == wpc[w] = "exec" /\ job[w].args.kind = kind

ResultsFor(j) ==
    Count([k \in 1..Len(result_q) |-> result_q[k].job], j)
        + Count([k \in 1..Len(results) |-> results[k].job], j)

\* C7: the step that ends the execution of a job raising NameError appends
\* exactly the result {job, ERROR} to the result queue and takes the worker
\* back to fetching; that job never has more than one result.
C7_NameErrorGivesErrorResult ==
    /\ [][\A w \in Workers :
            (Executing(w, "nameerror") /\ wpc'[w] # "exec")
                => /\ wpc'[w] = "fetch"
                   /\ result_q' = Append(result_q, [job |-> job[w], result |-> ERROR])
                   /\ job_q' = job_q]_vars
    /\ [](\A k \in 1..N : chunks[k].kind = "nameerror"
            => ResultsFor(MakeJob(chunks[k])) <= 1)

\* a worker executes a job after the ERROR result it made was collected
C7_Witness ==
    /\ num_processes = 1
    /\ \E k \in 1..Len(results) : results[k].result = ERROR
    /\ wpc[1] = "exec"
    /\ job[1].args.kind = "ok"

\* The worker crashed while executing a job.
LostJob(w) == wpc[w] = "crashed"

C9_LostJobStallsServer ==
    /\ []((\E w \in Workers : LostJob(w))
            => /\ Len(results) < N
               /\ spc \in {"submit", "collect", "collect_sleep"}
               /\ PillsInQueue = 0
               /\ ~PillObserved
               /\ manager = "running")
    /\ [][((\E w \in Workers : LostJob(w)) /\ Collecting) => Collecting']_vars

C9_Witness ==
    /\ \E w \in Workers : LostJob(w)
    /\ spc = "collect_sleep"
    /\ Len(results) = N - 1
    /\ job_q = <<>>
    /\ result_q = <<>>
    /\ \A w \in 1..num_processes : wpc[w] \in {"crashed", "sleep"}

Holders(j) == {w \in Workers : wpc[w] = "exec" /\ job[w] = j}

\* C10: each job is in the job queue at most once and held by at most one
\* worker, never both; it enters the queue only by the submission step of
\* its own chunk, which happens once; once it has left the queue it does not
\* come back.
C10_JobDequeuedAtMostOnce ==
    /\ [](\A k \in 1..N :
            LET j == MakeJob(chunks[k])
            IN  /\ Count(job_q, j) + Cardinality({w \in Workers : job[w] = j}) <= 1
                /\ Cardinality(Holders(j)) <= 1
                /\ k >= next_chunk => Count(job_q, j) = 0 /\ Holders(j) = {}
                /\ spc \notin {"check", "submit"} => next_chunk = N + 1)
    /\ [][\A k \in 1..N :
            LET j == MakeJob(chunks[k])
            IN  Count(job_q', j) > Count(job_q, j)
                    => /\ spc = "submit"
                       /\ k = next_chunk
                       /\ next_chunk' = next_chunk + 1]_vars

\* both workers execute at once, on different jobs
C10_Witness ==
    /\ \A w \in 1..2 : wpc[w] = "exec"
    /\ job[1] # job[2]
    /\ job_q # <<>>

PillsHeld == Cardinality(Retiring)

PillPut == (spc \in {"grace", "finalize"} \/ (spc = "done" /\ N >= 1))

\* C11: there is never more than one pill in the job queue and in the hands
\* of retiring workers together, and none before the server's put; the
\* number of pills in the queue grows only by the server's one put (from a
\* state without any pill, and the server never comes back to that put) or by
\* a retiring worker putting back the one it dequeued.
C11_PillPutOnce ==
    /\ [](/\ PillsInQueue + PillsHeld <= 1
          /\ PillsInQueue + PillsHeld = 1 => PillPut
          /\ (PillPut /\ manager = "running") => PillsInQueue + PillsHeld = 1)
    /\ [][/\ PillsInQueue' > PillsInQueue
                => \/ /\ spc = "pill"
                      /\ spc' = "grace"
                      /\ PillsInQueue + PillsHeld = 0
                      /\ PillsInQueue' = 1
                   \/ \E w \in Workers :
                        /\ wpc[w] = "retire"
                        /\ job[w] = POISONPILL
                        /\ wpc'[w] = "terminated"
                        /\ PillsInQueue' + PillsHeld' = PillsInQueue + PillsHeld
          /\ PillPut => spc' # "pill"]_vars

C11_Witness ==
    /\ spc = "grace"
    /\ PillsInQueue = 1
    /\ \E w \in Workers : wpc[w] = "terminated"
    /\ \E w \in Workers : wpc[w] = "sleep"

ServerOrder ==
    {<<"check", "submit">>, <<"check", "done">>, <<"submit", "collect">>,
     <<"collect", "collect_sleep">>, <<"collect_sleep", "collect">>,
     <<"collect", "pill">>, <<"pill", "grace">>, <<"grace", "finalize">>,
     <<"finalize", "done">>}

JobsInQueue == Len(job_q) - PillsInQueue

\* C12: the server moves through submit, collect, pill, grace, shutdown,
\* finalize in that order; jobs are enqueued only while submitting and all of
\* them before collecting, results are collected only while collecting, the
\* pill is put only after that, the manager is shut down only at the end of
\* the grace period after the pill, and finalization runs only on a manager
\* that was shut down.
C12_ServerStepsInOrder ==
    /\ [](/\ spc \notin {"check", "submit"} => next_chunk = N + 1
          /\ manager = "shutdown" <=> (spc = "finalize" \/ (spc = "done" /\ N >= 1))
          /\ manager = "shutdown" => Len(results) = N
          /\ PillsInQueue + PillsHeld > 0 => PillPut)
    /\ [][/\ spc' # spc => <<spc, spc'>> \in ServerOrder
          /\ JobsInQueue' > JobsInQueue => spc = "submit" /\ spc' = "submit"
          /\ results' # results => spc = "collect"
          /\ manager' # manager => spc = "grace" /\ spc' = "finalize" /\ PillPut]_vars

C12_Witness ==
    /\ spc = "done"
    /\ N >= 2
    /\ manager = "shutdown"
    /\ Len(results) = N

Exited(w) == wpc[w] \in {"terminated", "crashed", "disconnected"}

\* C13 as stated: run_workers is complete only when each of the
\* num_processes workers has terminated normally.
C13_JoinedAllRetired ==
    ppc = "done" => \A w \in 1..num_processes : wpc[w] = "terminated"

\* C13 amended: run_workers starts exactly num_processes workers, one per
\* entry of processes, and no others; it joins them in order, each only once
\* it has exited, normally or not; it is complete only when all of them have
\* exited.
C13_JoinedAllExited ==
    /\ Len(processes) <= num_processes
    /\ joined <= Len(processes)
    /\ \A w \in Workers : wpc[w] # "init" <=> w \in 1..Len(processes)
    /\ \A k \in 1..Len(processes) : processes[k] = k
    /\ ppc # "spawn" => Len(processes) = num_processes
    /\ ppc = "spawn" => joined = 0
    /\ \A k \in 1..joined : Exited(processes[k])
    /\ ppc = "done" => /\ joined = num_processes
                       /\ \A w \in 1..num_processes : Exited(w)

C13_Witness ==
    /\ ppc = "done"
    /\ num_processes = 2
    /\ \A w \in 1..2 : wpc[w] = "terminated"

\* The jobs of chunks a..b, in input order.
JobsOfChunks(a, b) == [k \in 1..(b - a + 1) |-> MakeJob(chunks[a + k - 1])]

\* C14: the jobs in the job queue are always the jobs of chunks d+1 ..
\* next_chunk-1 in input order, for the number d of jobs dequeued so far, and a
\* dequeue hands the head of the queue to the worker: the d-th job dequeued
\* is the job of chunk d.
C14_JobsDequeuedInSubmissionOrder ==
    /\ [](PillsInQueue = 0
            => \E d \in 0..(next_chunk - 1) : job_q = JobsOfChunks(d + 1, next_chunk - 1))
    /\ [](PillsInQueue > 0 => job_q = <<POISONPILL>>)
    /\ [][/\ Len(job_q') > Len(job_q)
                => job_q' = Append(job_q, job_q'[Len(job_q')])
          /\ Len(job_q') < Len(job_q)
                => /\ job_q' = Tail(job_q)
                   /\ \E w \in Workers :
                        /\ wpc[w] = "fetch"
                        /\ wpc'[w] \in {"exec", "retire"}
                        /\ job'[w] = Head(job_q)]_vars

\* chunks 1 and 2 were dequeued in that order, chunk 3 waits
C14_Witness ==
    /\ N = 3
    /\ wpc[1] = "exec" /\ job[1].args.id = 2
    /\ wpc[2] = "exec" /\ job[2].args.id = 1
    /\ job_q = <<MakeJob(chunks[3])>>

\* C15: the step of a worker whose fetch finds the job queue empty changes
\* only that worker's position, to sleeping, from which it only goes back to
\* fetching; the step of the server whose fetch finds the result queue empty
\* changes only the server's position, to sleeping, from which it only goes
\* back to collecting.  With the manager running an empty queue makes no
\* worker stop.
C15_EmptyFetchChangesNothing ==
    [][/\ \A w \in Workers :
            /\ (wpc[w] = "fetch" /\ job_q = <<>> /\ manager = "running" /\ wpc'[w] # "fetch")
                => /\ wpc'[w] = "sleep"
                   /\ \A v \in Workers \ {w} : wpc'[v] = wpc[v]
                   /\ UNCHANGED <<servervars, manager, job_q, result_q, poolvars, job>>
            /\ (wpc[w] = "sleep" /\ wpc'[w] # "sleep")
                => /\ wpc'[w] = "fetch"
                   /\ UNCHANGED <<servervars, manager, job_q, result_q, poolvars, job>>
       /\ (spc = "collect" /\ result_q = <<>> /\ spc' # spc)
            => /\ spc' = "collect_sleep"
               /\ UNCHANGED <<chunks, next_chunk, results, manager, job_q, result_q,
                              poolvars, wpc, job>>
       /\ (spc = "collect_sleep" /\ spc' # spc)
            => /\ spc' = "collect"
               /\ UNCHANGED <<chunks, next_chunk, results, manager, job_q, result_q,
                              poolvars, wpc, job>>]_vars

\* server and worker both sleep on an empty queue, with results accumulated
C15_Witness ==
    /\ spc = "collect_sleep"
    /\ Len(results) >= 1
    /\ \E w \in Workers : wpc[w] = "sleep"
    /\ job_q = <<>>
    /\ result_q = <<>>

\* C16: the job queue never holds the pill together with a job; the server
\* puts the pill on an empty job queue and no job is in the queue from then
\* on; a worker holding the pill leaves an empty queue behind.
C16_PillNeverWithJob ==
    /\ PillsInQueue > 0 => JobsInQueue = 0
    /\ (spc = "pill" \/ PillPut) => JobsInQueue = 0
    /\ PillsHeld > 0 => job_q = <<>>

C16_Witness ==
    /\ job_q = <<POISONPILL>>
    /\ N >= 2
    /\ \E w \in Workers : wpc[w] = "fetch"
    /\ manager = "running"

\* C17: once the server is about to put the pill, and from then on, no worker
\* is executing and the result queue is empty; a result is pushed only while
\* the server submits or collects and the manager runs.
C17_NoResultAfterPill ==
    /\ []((spc = "pill" \/ PillPut \/ manager = "shutdown")
            => /\ \A w \in Workers : wpc[w] # "exec"
               /\ result_q = <<>>
               /\ Len(results) = N)
    /\ [][Len(result_q') > Len(result_q)
            => /\ spc \in {"submit", "collect", "collect_sleep"}
               /\ manager = "running"
               /\ PillsInQueue + PillsHeld = 0]_vars

C17_Witness ==
    /\ spc = "grace"
    /\ N >= 2
    /\ num_processes = 2
    /\ \A w \in 1..2 : wpc[w] \in {"fetch", "sleep"} /\ job[w] \notin {NoJob, POISONPILL}

\* The workers that died executing job j.
LostBy(j) == {w \in Workers : wpc[w] = "crashed" /\ job[w] = j}

JobsOf(q) == {q[k].job : k \in 1..Len(q)}

NoCrashes == \A k \in 1..N : chunks[k].kind # "other"

\* C19: a worker has dequeued the pill, terminated or lost its connection
\* only after the server put the pill, hence with all N results collected; a
\* terminated worker is one that dequeued the pill; while the server checks,
\* submits or collects, every started worker is fetching (or sleeping between
\* fetches) or executing, or, if some job crashes its worker, crashed.
C19_NoEarlyTermination ==
    /\ \A w \in Workers :
        /\ wpc[w] \in {"retire", "terminated", "disconnected"}
            => PillPut /\ Len(results) = N
        /\ wpc[w] = "terminated" => job[w] = POISONPILL
        /\ NoCrashes => wpc[w] # "crashed"
    /\ (~PillPut /\ NoCrashes)
        => \A w \in Workers : wpc[w] \in {"init", "fetch", "sleep", "exec"}

\* a worker has slept on an empty queue while the server still collects, and
\* is fetching again
C19_Witness ==
    /\ NoCrashes
    /\ N >= 1
    /\ spc = "collect_sleep"
    /\ job_q = <<>>
    /\ num_processes = 2
    /\ wpc[1] = "sleep"
    /\ wpc[2] = "exec"

====
